---- MODULE Spec2Model ----
(***************************************************************************)
(* A model of the MDX/MDD dictionary reader (zangloo/mdict).               *)
(*                                                                         *)
(* The engine of src/src/parser.rs (load, decode_block, bisect_search,     *)
(* record_offset, find_definition, lookup_record) is modelled together     *)
(* with the facade of src/src/mdx.rs (MDictBuilder, MDict::lookup,         *)
(* MDict::get_resource, load_resources).                                   *)
(*                                                                         *)
(* Bytes are naturals 0..255, texts are sequences of character codes.     *)
(* The external crates are abstracted: a block on disk carries the bytes   *)
(* its decryption and decompression produce ("plain") and whether the      *)
(* decompressor accepts it ("unpack"); Adler-32 is computed for real.      *)
(***************************************************************************)
EXTENDS Integers, Sequences, FiniteSets, TLC

VARIABLES
    disk,       \* the files on disk: the primary .mdx and the sibling .mdd slots
    state,      \* "Unopened" | "Ready"
    dict,       \* the MDict handle (mdx, resources) once Ready
    result,     \* outcome of the last operation (open, lookup, get_resource)
    trace,      \* what the last operation did: sections read, handles searched, file I/O
    fin,        \* input of the pure function under test (function benches)
    fout        \* its output

vars == <<disk, state, dict, result, trace, fin, fout>>

(***************************************************************************)
(* Option and Result values                                                *)
(***************************************************************************)
None == [some |-> FALSE]
Some(v) == [some |-> TRUE, val |-> v]

Ok(v) == [kind |-> "Ok", val |-> v]
Err(name, arg) == [kind |-> "Err", name |-> name, arg |-> arg]
Panic(where) == [kind |-> "Panic", at |-> where]

IsOk(r) == r.kind = "Ok"
IsErr(r) == r.kind = "Err"
IsPanic(r) == r.kind = "Panic"

\* let v = ...; the value is computed once and F is what follows the binding
Let(v, F(_)) == CHOOSE y \in {F(x) : x \in {v}} : TRUE

(***************************************************************************)
(* Slices.  Rust panics on an out-of-range slice; the callers test         *)
(* InRange before they slice.                                              *)
(***************************************************************************)
SliceFrom(s, from) == SubSeq(s, from + 1, Len(s))
SliceTo(s, to) == SubSeq(s, 1, to)

RECURSIVE position(_, _, _)
position(s, b, i) ==
    IF i > Len(s) THEN -1
    ELSE IF s[i] = b THEN i - 1
    ELSE position(s, b, i + 1)

RECURSIVE read_be(_, _)
read_be(bytes, acc) ==
    IF bytes = <<>> THEN acc
    ELSE read_be(Tail(bytes), acc * 256 + Head(bytes))

(***************************************************************************)
(* Adler-32, kept as the pair <<a, b>> of its two 16-bit halves:           *)
(* a = 1 + the sum of the bytes, b = the sum of the successive values of   *)
(* a, both modulo 65521.                                                   *)
(***************************************************************************)
RECURSIVE weighted_sum(_, _, _, _)
weighted_sum(data, lo, hi, k) ==
    IF lo > hi THEN 0
    ELSE IF lo = hi THEN data[lo] * (IF k = 0 THEN 1 ELSE Len(data) - lo + 1)
    ELSE LET mid == (lo + hi) \div 2
         IN  weighted_sum(data, lo, mid, k) + weighted_sum(data, mid + 1, hi, k)

RollingAdler32(data) ==
    << (1 + weighted_sum(data, 1, Len(data), 0)) % 65521,
       (Len(data) + weighted_sum(data, 1, Len(data), 1)) % 65521 >>

check_adler32(data, checksum) ==
    IF RollingAdler32(data) # checksum
    THEN Err("InvalidCheckSum", "header")
    ELSE Ok(<<>>)

(***************************************************************************)
(* Text                                                                    *)
(***************************************************************************)
RECURSIVE str_cmp(_, _)
str_cmp(s, t) ==
    IF s = <<>> /\ t = <<>> THEN "Equal"
    ELSE IF s = <<>> THEN "Less"
    ELSE IF t = <<>> THEN "Greater"
    ELSE IF Head(s) < Head(t) THEN "Less"
    ELSE IF Head(s) > Head(t) THEN "Greater"
    ELSE str_cmp(Tail(s), Tail(t))

to_ascii_lowercase(s) ==
    [i \in 1..Len(s) |-> IF s[i] >= 65 /\ s[i] <= 90 THEN s[i] + 32 ELSE s[i]]

\* the default key maker of MDictBuilder::build
key_maker(key, resource) == to_ascii_lowercase(key)

RECURSIVE decode_utf16le(_)
decode_utf16le(bytes) ==
    IF bytes = <<>> THEN <<>>
    ELSE IF Len(bytes) = 1 THEN <<65533>>
    ELSE <<bytes[1] + 256 * bytes[2]>> \o decode_utf16le(SubSeq(bytes, 3, Len(bytes)))

\* Encoding::decode on the byte values the model uses (below 128 for the
\* single-byte encodings, where UTF-8 and GBK agree with ASCII)
decode(encoding, bytes) ==
    IF encoding = "UTF-16LE" THEN decode_utf16le(bytes) ELSE bytes

(***************************************************************************)
(* Codec: decode_block.                                                    *)
(* raw = [blk, avail]: the slice handed to decode_block starts at the      *)
(* stored block blk and holds avail bytes.  blk = [enc, checksum, plain,   *)
(* unpack, size]: enc is the low byte of the u32-LE method word, checksum  *)
(* the stored Adler-32, plain what decryption and decompression of the     *)
(* whole body yield, unpack whether the decompressor accepts the body,     *)
(* size the bytes the block occupies (8 + body).  A declared size never    *)
(* exceeds the stored block in the files of this model.                    *)
(***************************************************************************)
Min(a, b) == IF a < b THEN a ELSE b

encryption_method(enc) == (enc \div 16) % 16
compress_method(enc) == enc % 16

MethodName(n) ==
    CASE n = 0 -> "0" [] n = 1 -> "1" [] n = 2 -> "2" [] n = 3 -> "3"
      [] OTHER -> "other"

\* the bytes the decompressor is given: slice[8..compressed_size], decrypted
compressed_body(blk, compressed_size) ==
    [whole |-> compressed_size = blk.size,
     bytes |-> SliceTo(blk.plain, Min(Len(blk.plain), compressed_size - 8))]

\* compress_method 0: the body itself; 1: minilzo::decompress into a buffer of
\* decompressed_size bytes (output overrun is an error); 2: zlib
decompress(blk, compressed_size, decompressed_size) ==
    Let(compressed_body(blk, compressed_size), LAMBDA body :
    Let(compress_method(blk.enc), LAMBDA m :
        CASE m = 0 -> Ok(body.bytes)
          [] m = 1 -> IF blk.unpack /\ body.whole /\ Len(blk.plain) <= decompressed_size
                      THEN Ok(blk.plain)
                      ELSE Err("InvalidData", "")
          [] m = 2 -> IF blk.unpack /\ body.whole
                      THEN Ok(blk.plain)
                      ELSE Err("InvalidData", "")
          [] OTHER -> Err("InvalidCompressMethod", MethodName(m))))

decode_block(raw, compressed_size, decompressed_size) ==
    IF raw.avail < 8 THEN Panic("slice[0..4] / slice[4..8]")
    ELSE IF compressed_size < 8 \/ compressed_size > raw.avail
    THEN Panic("slice[8..compressed_size]")
    ELSE IF encryption_method(raw.blk.enc) > 2
    THEN Err("InvalidEncryptMethod", MethodName(encryption_method(raw.blk.enc)))
    ELSE Let(decompress(raw.blk, compressed_size, decompressed_size), LAMBDA d :
             IF ~IsOk(d) THEN d
             ELSE Let(check_adler32(d.val, raw.blk.checksum), LAMBDA c :
                      IF IsOk(c) THEN d ELSE c))

(***************************************************************************)
(* Lookup engine: comparators, bisect_search, record_offset                *)
(***************************************************************************)
\* variant: a block whose last key equals the word is taken to end before it
KeyBlock_partial_cmp_open_end(self, word) ==
    IF self.entries = <<>> THEN "None"
    ELSE IF str_cmp(self.entries[1].text, word) = "Greater" THEN "Greater"
    ELSE IF str_cmp(self.entries[Len(self.entries)].text, word) # "Greater" THEN "Less"
    ELSE "Equal"

KeyBlock_partial_cmp(self, word) ==
    IF self.entries = <<>> THEN "None"
    ELSE IF str_cmp(self.entries[1].text, word) = "Greater" THEN "Greater"
    ELSE IF str_cmp(self.entries[Len(self.entries)].text, word) = "Less" THEN "Less"
    ELSE "Equal"

\* variant: entries are compared on their first character only
KeyEntry_partial_cmp_first_char(self, word) ==
    LET first(s) == IF s = <<>> THEN s ELSE <<Head(s)>>
    IN  str_cmp(first(self.text), first(word))

KeyEntry_partial_cmp(self, word) == str_cmp(self.text, word)

\* T: PartialOrd<C> is KeyBlock at the block level and KeyEntry at the entry level
partial_cmp(current, word) ==
    IF "entries" \in DOMAIN current
    THEN KeyBlock_partial_cmp(current, word)
    ELSE KeyEntry_partial_cmp(current, word)

RECURSIVE bisect_search(_, _)
bisect_search(slice, word) ==
    IF slice = <<>> THEN None
    ELSE LET len == Len(slice)
             idx == Len(slice) \div 2
             current == slice[(Len(slice) \div 2) + 1]
         IN  Let(partial_cmp(current, word), LAMBDA c :
                 CASE c = "None" -> None
                   [] c = "Greater" -> bisect_search(SliceTo(slice, idx), word)
                   [] c = "Equal" -> Some(current)
                   [] c = "Less" ->
                        IF idx + 1 >= len THEN None
                        ELSE bisect_search(SliceFrom(slice, idx + 1), word))

\* variant: buf_offset is advanced by the decompressed sizes
RECURSIVE record_offset_from_decompressed_sum(_, _, _, _, _)
record_offset_from_decompressed_sum(records_info, i, entry, block_offset, buf_offset) ==
    IF i > Len(records_info) THEN None
    ELSE LET info == records_info[i]
         IN  IF entry.offset < block_offset + info.decompressed_size
             THEN Some([buf_offset |-> buf_offset,
                        block_offset |-> entry.offset - block_offset,
                        record_size |-> info.compressed_size,
                        decomp_size |-> info.decompressed_size])
             ELSE record_offset_from_decompressed_sum(records_info, i + 1, entry,
                                     block_offset + info.decompressed_size,
                                     buf_offset + info.decompressed_size)

RECURSIVE record_offset_from(_, _, _, _, _)
record_offset_from(records_info, i, entry, block_offset, buf_offset) ==
    IF i > Len(records_info) THEN None
    ELSE LET info == records_info[i]
         IN  IF entry.offset < block_offset + info.decompressed_size
             THEN Some([buf_offset |-> buf_offset,
                        block_offset |-> entry.offset - block_offset,
                        record_size |-> info.compressed_size,
                        decomp_size |-> info.decompressed_size])
             ELSE record_offset_from(records_info, i + 1, entry,
                                     block_offset + info.decompressed_size,
                                     buf_offset + info.compressed_size)

record_offset(records_info, entry) == record_offset_from(records_info, 1, entry, 0, 0)

(***************************************************************************)
(* Record fetch.                                                           *)
(* An Mdx handle is [file, encoding, encrypted, key_blocks, records_info,  *)
(* reader, record_block_offset, record_cache]: reader is the cursor of the *)
(* BufReader<File> on disk file "file"; record_cache is None (caching      *)
(* off) or Some(map from buf_offset to decoded bytes).                     *)
(* io = [fail, consumed] is what the file system does to this call: fail   *)
(* is "none", "seek" or "read"; a failed read leaves the cursor before or  *)
(* (consumed) after the bytes asked for.                                   *)
(***************************************************************************)
Seek(at) == [op |-> "seek", at |-> at, n |-> 0]
Read(at, n) == [op |-> "read", at |-> at, n |-> n]
Decoded(at, n) == [op |-> "decode_block", at |-> at, n |-> n]

\* the stored record block that starts at absolute position pos, if any
RECURSIVE block_at(_, _, _, _)
block_at(blocks, i, start, pos) ==
    IF i > Len(blocks) THEN None
    ELSE IF start = pos THEN Some(blocks[i])
    ELSE block_at(blocks, i + 1, start + blocks[i].size, pos)

\* bytes that belong to no stored block decode to a checksum mismatch
StrayBlock == [enc |-> 0, checksum |-> <<0, 0>>, plain |-> <<>>, unpack |-> FALSE, size |-> 0]

\* read_buf(reader, len) on the record region of file f at position pos
read_buf(f, pos, len, io) ==
    IF io.fail = "read" \/ pos + len > f.length
    THEN Err("FailedReading", "")
    ELSE Let(block_at(f.records, 1, f.record_start, pos), LAMBDA b :
             Ok([blk |-> IF b.some /\ len <= b.val.size THEN b.val ELSE StrayBlock,
                 avail |-> len]))

find(sliec, encoding) ==
    Let(position(sliec, 0, 1), LAMBDA idx :
        IF idx = -1 THEN Err("InvalidData", "")
        ELSE IF idx = 0 THEN Panic("sliec[..idx - 1]")
        ELSE Ok(decode(encoding, SliceTo(sliec, idx - 1))))

\* variant: the map keeps one block, whatever its buf_offset
cache_insert_one_slot(cache, key, value) == [k \in {0} |-> value]

\* variant: inserting a block evicts the blocks cached before
cache_insert_evicting(cache, key, value) == [k \in {key} |-> value]

cache_insert(cache, key, value) ==
    [k \in DOMAIN cache \cup {key} |-> IF k = key THEN value ELSE cache[k]]

\* find(&bytes[offset.block_offset..], encoding)
find_at(bytes, offset, encoding) ==
    IF offset.block_offset > Len(bytes)
    THEN Panic("[offset.block_offset..]")
    ELSE find(SliceFrom(bytes, offset.block_offset), encoding)

\* variant: a failed step also drops the key index
early_return_dropping_index(res, mdx, log) ==
    [res |-> res, mdx |-> [mdx EXCEPT !.key_blocks = <<>>], log |-> log]

\* the ? of the Vacant arm: the error is returned and the handle stays as the
\* steps before it left it
early_return(res, mdx, log) == [res |-> res, mdx |-> mdx, log |-> log]

\* variant: the seek leaves the cursor where it was
seek_nowhere(reader, pos) == reader

\* reader.seek(SeekFrom::Start(pos))
seek(reader, pos) == [reader EXCEPT !.pos = pos]

\* the Vacant arm after the seek: read_buf at the cursor, decode_block; insert
\* tells whether the decoded block is stored under buf_offset.  log lists the
\* steps that completed or failed on the file and the block that decode_block
\* returned
read_block(mdx, offset, io, f, insert, target) ==
    LET at == mdx.reader.pos
        log == <<Seek(target), Read(mdx.reader.pos, offset.record_size)>>
        moved == [mdx EXCEPT !.reader.pos = mdx.reader.pos + offset.record_size]
    IN  Let(read_buf(f, at, offset.record_size, io), LAMBDA data :
        IF ~IsOk(data)
        THEN early_return(data,
                          [mdx EXCEPT !.reader.pos =
                             IF io.fail # "read" THEN f.length
                             ELSE IF io.consumed THEN at + offset.record_size
                             ELSE at],
                          log)
        ELSE Let(decode_block(data.val, offset.record_size, offset.decomp_size),
                 LAMBDA decompressed :
             IF ~IsOk(decompressed)
             THEN early_return(decompressed, moved, log)
             ELSE [res |-> find_at(decompressed.val, offset, mdx.encoding),
                   log |-> Append(log, Decoded(at, Len(decompressed.val))),
                   mdx |-> IF insert
                           THEN [moved EXCEPT !.record_cache = Some(
                                   cache_insert(mdx.record_cache.val,
                                                offset.buf_offset,
                                                decompressed.val))]
                           ELSE moved]))

\* the Vacant arm: seek to record_block_offset + buf_offset, then read_block
fetch(mdx, offset, io, f, insert) ==
    LET target == mdx.record_block_offset + offset.buf_offset
    IN  IF io.fail = "seek"
        THEN early_return(Err("FailedReading", ""), mdx, <<Seek(target)>>)
        ELSE read_block([mdx EXCEPT !.reader = seek(mdx.reader, target)],
                        offset, io, f, insert, target)

\* variant: the Occupied arm is not taken, the block is fetched again
find_definition_refetching(mdx, offset, io, f) == fetch(mdx, offset, io, f, TRUE)

find_definition(mdx, offset, io, f) ==
    IF offset.buf_offset \in DOMAIN mdx.record_cache.val
    THEN [res |-> find_at(mdx.record_cache.val[offset.buf_offset], offset, mdx.encoding),
          mdx |-> mdx, log |-> <<>>]
    ELSE fetch(mdx, offset, io, f, TRUE)

\* a handle built with caching off keeps no map: every lookup fetches
find_definition_uncached(mdx, offset, io, f) == fetch(mdx, offset, io, f, FALSE)

lookup_record(mdx, word, io, f) ==
    LET miss == [res |-> Ok(None), mdx |-> mdx, log |-> <<>>]
    IN  Let(bisect_search(mdx.key_blocks, word), LAMBDA key_block :
        IF ~key_block.some THEN miss
        ELSE Let(bisect_search(key_block.val.entries, word), LAMBDA entry :
             IF ~entry.some THEN miss
             ELSE Let(record_offset(mdx.records_info, entry.val), LAMBDA offset :
                  IF ~offset.some THEN miss
                  ELSE Let(IF mdx.record_cache.some
                           THEN find_definition(mdx, offset.val, io, f)
                           ELSE find_definition_uncached(mdx, offset.val, io, f),
                           LAMBDA d :
                       IF IsOk(d.res)
                       THEN [d EXCEPT !.res = Ok(Some(d.res.val))]
                       ELSE d))))

(***************************************************************************)
(* Loader.                                                                 *)
(* A file on disk is [exists, length, header, kbh, kinfo, keys, recinfo,   *)
(* records, record_start]:                                                 *)
(*   header  = [blob, checksum, attrs]   blob stands for the UTF-16LE      *)
(*             attribute text, attrs is what read_keys finds in it;        *)
(*   kbh     = [blob, checksum, block_info_size, key_block_size];          *)
(*   kinfo   = [magic, checksum, scrambled, zlib_ok, body_size, table];    *)
(*   keys    = the stored key blocks, records = the stored record blocks;  *)
(*   recinfo = the (compressed_size, decompressed_size) pairs.             *)
(* A read that runs past length fails as read_exact does.                  *)
(***************************************************************************)
\* Version::read_number, read_size: 4 bytes in V1, 8 in V2
size_width(header) == IF header.version = "V1" THEN 4 ELSE 8
\* read_num_bytes: u8 in V1, u16 in V2
num_width(header) == IF header.version = "V1" THEN 1 ELSE 2

RECURSIVE trim(_)
trim(s) ==
    IF s = <<>> THEN s
    ELSE IF Head(s) = 32 THEN trim(Tail(s))
    ELSE IF s[Len(s)] = 32 THEN trim(SliceTo(s, Len(s) - 1))
    ELSE s

\* Encoding::for_label
for_label(label) ==
    CASE label \in {"UTF-8", "utf-8", "utf8"} -> Some("UTF-8")
      [] label \in {"UTF-16LE", "UTF-16", "utf-16le"} -> Some("UTF-16LE")
      [] label \in {"GBK", "gbk", "GB2312"} -> Some("GBK")
      [] OTHER -> None

\* x == "Yes" -> 1, else x.parse::<u8>().ok(), else 0
encrypted_value(attrs) ==
    IF "Encrypted" \notin DOMAIN attrs THEN 0
    ELSE LET x == attrs.Encrypted
         IN  CASE x = "Yes" -> 1
               [] x = "0" -> 0 [] x = "1" -> 1 [] x = "2" -> 2 [] x = "3" -> 3
               [] OTHER -> 0

read_header(f, default_encoding) ==
    IF 4 + Len(f.header.blob) + 4 > f.length THEN Err("FailedReading", "")
    ELSE
    LET attrs == f.header.attrs
    IN  Let(check_adler32(f.header.blob, f.header.checksum), LAMBDA c :
        IF ~IsOk(c) THEN c
        ELSE IF "GeneratedByEngineVersion" \notin DOMAIN attrs
        THEN Err("NoVersion", "")
        ELSE Let(trim(attrs.GeneratedByEngineVersion), LAMBDA version_str :
             IF version_str = <<>> \/ version_str[1] > 127
             THEN Panic("version_str[0..1]")
             ELSE IF version_str[1] < 48 \/ version_str[1] > 57
             THEN Err("InvalidVersion", "version_str")
             ELSE Let(version_str[1] - 48, LAMBDA version :
                  IF version \notin {1, 2}
                  THEN Err("UnsupportedVersion", MethodName(version))
                  ELSE Let(IF "Encoding" \in DOMAIN attrs /\ attrs.Encoding # ""
                           THEN for_label(attrs.Encoding)
                           ELSE Some(default_encoding),
                           LAMBDA encoding :
                       IF ~encoding.some
                       THEN Err("InvalidEncoding", attrs.Encoding)
                       ELSE Ok([version |-> IF version = 1 THEN "V1" ELSE "V2",
                                encrypted |-> encrypted_value(attrs),
                                encoding |-> encoding.val])))))

\* read_key_block_header_v1 / _v2, at position pos
kbh_size(header) == IF header.version = "V1" THEN 16 ELSE 44

read_key_block_header(f, pos, header) ==
    IF pos + kbh_size(header) > f.length THEN Err("FailedReading", "")
    ELSE Let(IF header.version = "V1" THEN Ok(<<>>)
             ELSE check_adler32(f.kbh.blob, f.kbh.checksum),
             LAMBDA c :
         IF ~IsOk(c) THEN c
         ELSE Ok([block_info_size |-> f.kbh.block_info_size,
                  key_block_size |-> f.kbh.key_block_size]))

text_bytes(header, bytes) ==
    LET text_size == IF header.version = "V1" THEN bytes ELSE bytes + 1
    IN  IF header.encoding = "UTF-8" THEN text_size ELSE text_size * 2

RECURSIVE decode_key_blocks(_, _, _)
decode_key_blocks(slice, header, list) ==
    IF slice = <<>> THEN Ok(list)
    ELSE
    LET w == size_width(header)
        nb == num_width(header)
    IN  IF Len(slice) < w THEN Panic("read_size") ELSE
        Let(SliceFrom(slice, w), LAMBDA s1 :
        IF Len(s1) < nb THEN Panic("read_num_bytes") ELSE
        Let(text_bytes(header, read_be(SliceTo(s1, nb), 0)), LAMBDA d1 :
        Let(SliceFrom(s1, nb), LAMBDA s2 :
        IF Len(s2) < d1 THEN Panic("slice[delta..]") ELSE
        Let(SliceFrom(s2, d1), LAMBDA s3 :
        IF Len(s3) < nb THEN Panic("read_num_bytes") ELSE
        Let(text_bytes(header, read_be(SliceTo(s3, nb), 0)), LAMBDA d2 :
        Let(SliceFrom(s3, nb), LAMBDA s4 :
        IF Len(s4) < d2 THEN Panic("slice[delta..]") ELSE
        Let(SliceFrom(s4, d2), LAMBDA s5 :
        IF Len(s5) < w THEN Panic("read_size") ELSE
        Let(read_be(SliceTo(s5, w), 0), LAMBDA compressed_size :
        Let(SliceFrom(s5, w), LAMBDA s6 :
        IF Len(s6) < w THEN Panic("read_size") ELSE
        Let(read_be(SliceTo(s6, w), 0), LAMBDA decompressed_size :
            decode_key_blocks(SliceFrom(s6, w), header,
                Append(list, [compressed_size |-> compressed_size,
                              decompressed_size |-> decompressed_size]))))))))))))

\* the key-block-info table: size bytes at position pos
read_key_block_infos(f, pos, size, header) ==
    IF pos + size > f.length THEN Err("FailedReading", "")
    ELSE IF header.version = "V1"
    THEN decode_key_blocks(SliceTo(f.kinfo.table, Min(size, Len(f.kinfo.table))), header, <<>>)
    ELSE IF size < 4 THEN Panic("buf[0..4]")
    ELSE IF f.kinfo.magic # <<2, 0, 0, 0>> THEN Err("InvalidData", "")
    ELSE IF size < 8 THEN Panic("buf[4..8]")
    ELSE IF ~(f.kinfo.zlib_ok /\ size >= 8 + f.kinfo.body_size
              /\ (f.kinfo.scrambled <=> header.encrypted = 2))
    THEN Err("FailedReading", "")
    ELSE Let(check_adler32(f.kinfo.table, f.kinfo.checksum), LAMBDA c :
             IF ~IsOk(c) THEN c
             ELSE decode_key_blocks(f.kinfo.table, header, <<>>))

RECURSIVE utf16_nul(_, _)
utf16_nul(s, i) ==
    IF i >= Len(s) THEN Err("InvalidData", "")
    ELSE IF i + 1 >= Len(s) THEN
        IF s[i + 1] = 0 THEN Panic("entries_slice[i + 1]") ELSE Err("InvalidData", "")
    ELSE IF s[i + 1] = 0 /\ s[i + 2] = 0 THEN Ok(i)
    ELSE utf16_nul(s, i + 2)

decode_text(header, entries_slice) ==
    IF header.encoding = "UTF-16LE"
    THEN Let(utf16_nul(entries_slice, 0), LAMBDA found :
             IF ~IsOk(found) THEN found
             ELSE Ok([text |-> decode(header.encoding, SliceTo(entries_slice, found.val)),
                      idx |-> found.val + 2]))
    ELSE IF header.encoding = "UTF-8"
    THEN Let(position(entries_slice, 0, 1), LAMBDA idx :
             IF idx = -1 THEN Err("InvalidData", "")
             ELSE Ok([text |-> decode(header.encoding, SliceTo(entries_slice, idx)),
                      idx |-> idx + 1]))
    ELSE Err("InvalidEncoding", header.encoding)

\* the while loop of read_key_blocks over one decoded key block
RECURSIVE read_entries(_, _, _)
read_entries(entries_slice, header, entries) ==
    IF entries_slice = <<>> THEN Ok(entries)
    ELSE LET w == size_width(header)
         IN  IF Len(entries_slice) < w THEN Panic("BE::read")
             ELSE Let(read_be(SliceTo(entries_slice, w), 0), LAMBDA offset :
                  Let(SliceFrom(entries_slice, w), LAMBDA rest :
                  Let(decode_text(header, rest), LAMBDA t :
                      IF ~IsOk(t) THEN t
                      ELSE read_entries(SliceFrom(rest, t.val.idx), header,
                               Append(entries, [offset |-> offset, text |-> t.val.text])))))

\* the for loop of read_key_blocks: at is the position inside the key region
RECURSIVE read_key_blocks_from(_, _, _, _, _, _, _)
read_key_blocks_from(f, size, header, entry_infos, i, at, blocks) ==
    IF i > Len(entry_infos) THEN Ok(blocks)
    ELSE LET info == entry_infos[i]
         IN  Let(block_at(f.keys, 1, 0, at), LAMBDA b :
             Let(decode_block([blk |-> IF b.some /\ info.compressed_size <= b.val.size
                                       THEN b.val ELSE StrayBlock,
                               avail |-> size - at],
                              info.compressed_size, info.decompressed_size),
                 LAMBDA decompressed :
                 IF ~IsOk(decompressed) THEN decompressed
                 ELSE Let(read_entries(decompressed.val, header, <<>>), LAMBDA entries :
                      IF ~IsOk(entries) THEN entries
                      ELSE read_key_blocks_from(f, size, header, entry_infos, i + 1,
                               at + info.compressed_size,
                               Append(blocks, [entries |-> entries.val])))))

read_key_blocks(f, pos, size, header, entry_infos) ==
    IF pos + size > f.length THEN Err("FailedReading", "")
    ELSE read_key_blocks_from(f, size, header, entry_infos, 1, 0, <<>>)

\* variant: the four numbers before the size pairs are not counted
recinfo_size_pairs_only(f, header) == size_width(header) * 2 * Len(f.recinfo)

recinfo_size(f, header) == size_width(header) * (4 + 2 * Len(f.recinfo))

read_record_blocks(f, pos, header) ==
    IF pos + recinfo_size(f, header) > f.length THEN Err("FailedReading", "")
    ELSE Ok(f.recinfo)

\* the sections load reads, in order
AllStages == <<"header", "key-block-header", "key-block-info", "key-blocks", "record-info">>

\* load: [res, stages]; stages are the sections read so far
load(name, f, cache) ==
    LET p1 == 4 + Len(f.header.blob) + 4
    IN  Let(read_header(f, "UTF-16LE"), LAMBDA header :
        IF ~IsOk(header) THEN [res |-> header, stages |-> <<"header">>] ELSE
        Let(read_key_block_header(f, p1, header.val), LAMBDA key_block_header :
        IF ~IsOk(key_block_header)
        THEN [res |-> key_block_header, stages |-> SliceTo(AllStages, 2)] ELSE
        Let(p1 + kbh_size(header.val), LAMBDA p2 :
        Let(read_key_block_infos(f, p2, key_block_header.val.block_info_size, header.val),
            LAMBDA key_block_infos :
        IF ~IsOk(key_block_infos)
        THEN [res |-> key_block_infos, stages |-> SliceTo(AllStages, 3)] ELSE
        Let(p2 + key_block_header.val.block_info_size, LAMBDA p3 :
        Let(read_key_blocks(f, p3, key_block_header.val.key_block_size,
                            header.val, key_block_infos.val),
            LAMBDA key_blocks :
        IF ~IsOk(key_blocks)
        THEN [res |-> key_blocks, stages |-> SliceTo(AllStages, 4)] ELSE
        Let(p3 + key_block_header.val.key_block_size, LAMBDA p4 :
        Let(read_record_blocks(f, p4, header.val), LAMBDA records_info :
        IF ~IsOk(records_info)
        THEN [res |-> records_info, stages |-> AllStages] ELSE
        Let(p4 + recinfo_size(f, header.val), LAMBDA record_block_offset :
            [res |-> Ok([file |-> name,
                         encoding |-> header.val.encoding,
                         encrypted |-> header.val.encrypted,
                         key_blocks |-> key_blocks.val,
                         records_info |-> records_info.val,
                         reader |-> [pos |-> record_block_offset],
                         record_block_offset |-> record_block_offset,
                         record_cache |-> IF cache THEN Some(<<>>) ELSE None]),
             stages |-> AllStages])))))))))

(***************************************************************************)
(* Facade: MDictBuilder::build_with_key_maker, load_resources,             *)
(* MDict::lookup, MDict::get_resource.                                     *)
(* disk = [mdx, mdd]: mdx is the primary file, mdd[0] is name.mdd and      *)
(* mdd[i] is name.i.mdd.  A handle's file is -1 for the primary and i for  *)
(* mdd[i].                                                                 *)
(***************************************************************************)
MaxSiblings == 2

Slots == 0..MaxSiblings

Loaded(name, l) == [file |-> name, stages |-> l.stages, kind |-> l.res.kind]

\* variant: a sibling that fails to load ends the loop without an error
RECURSIVE load_numbered_skipping(_, _, _, _, _)
load_numbered_skipping(dsk, i, cache_resources, resources, loads) ==
    IF i \notin Slots \/ ~dsk.mdd[i].exists
    THEN [res |-> Ok(resources), loads |-> loads]
    ELSE Let(load(i, dsk.mdd[i], cache_resources), LAMBDA l :
             IF ~IsOk(l.res)
             THEN [res |-> Ok(resources), loads |-> Append(loads, Loaded(i, l))]
             ELSE load_numbered_skipping(dsk, i + 1, cache_resources,
                                         Append(resources, l.res.val),
                                         Append(loads, Loaded(i, l))))

\* the loop over name.i.mdd, i >= 1; a path beyond the slots does not exist
RECURSIVE load_numbered(_, _, _, _, _)
load_numbered(dsk, i, cache_resources, resources, loads) ==
    IF i \notin Slots \/ ~dsk.mdd[i].exists
    THEN [res |-> Ok(resources), loads |-> loads]
    ELSE Let(load(i, dsk.mdd[i], cache_resources), LAMBDA l :
             IF ~IsOk(l.res)
             THEN [res |-> l.res, loads |-> Append(loads, Loaded(i, l))]
             ELSE load_numbered(dsk, i + 1, cache_resources,
                                Append(resources, l.res.val),
                                Append(loads, Loaded(i, l))))

\* variant: without name.mdd the numbered files are still looked for
load_resources_without_base(dsk, cache_resources) ==
    IF ~dsk.mdd[0].exists THEN load_numbered(dsk, 1, cache_resources, <<>>, <<>>)
    ELSE Let(load(0, dsk.mdd[0], cache_resources), LAMBDA l :
             IF ~IsOk(l.res)
             THEN [res |-> l.res, loads |-> <<Loaded(0, l)>>]
             ELSE load_numbered(dsk, 1, cache_resources, <<l.res.val>>, <<Loaded(0, l)>>))

load_resources(dsk, cache_resources) ==
    IF ~dsk.mdd[0].exists THEN [res |-> Ok(<<>>), loads |-> <<>>]
    ELSE Let(load(0, dsk.mdd[0], cache_resources), LAMBDA l :
             IF ~IsOk(l.res)
             THEN [res |-> l.res, loads |-> <<Loaded(0, l)>>]
             ELSE load_numbered(dsk, 1, cache_resources, <<l.res.val>>, <<Loaded(0, l)>>))

\* path is what the caller passes: "ok", "no_parent" (path.parent() is None) or
\* "bad_stem" (the file stem is not UTF-8)
build_with_key_maker(dsk, path, cache_definition, cache_resource) ==
    IF ~dsk.mdx.exists THEN [res |-> Err("FailedReading", ""), loads |-> <<>>]
    ELSE IF path = "no_parent" THEN [res |-> Err("InvalidPath", ""), loads |-> <<>>]
    ELSE Let(load(-1, dsk.mdx, cache_definition), LAMBDA l :
         Let(<<Loaded(-1, l)>>, LAMBDA first :
             IF ~IsOk(l.res) THEN [res |-> l.res, loads |-> first]
             ELSE IF path = "bad_stem" THEN [res |-> Err("InvalidPath", ""), loads |-> first]
             ELSE Let(load_resources(dsk, cache_resource), LAMBDA r :
                      IF ~IsOk(r.res) THEN [res |-> r.res, loads |-> first \o r.loads]
                      ELSE [res |-> Ok([mdx |-> l.res.val, resources |-> r.res.val]),
                            loads |-> first \o r.loads])))

\* MDict::lookup: [res, dict, searched, log]
MDict_lookup(d, dsk, word, io) ==
    Let(lookup_record(d.mdx, key_maker(word, FALSE), io, dsk.mdx), LAMBDA r :
        [res |-> r.res, dict |-> [d EXCEPT !.mdx = r.mdx],
         searched |-> <<-1>>, log |-> r.log])

\* variant: the loop goes on after a hit and the last hit is returned
RECURSIVE get_resource_last_hit(_, _, _, _, _, _)
get_resource_last_hit(d, dsk, key, io, i, searched) ==
    IF i > Len(d.resources)
    THEN [res |-> Ok(None), dict |-> d, searched |-> searched, log |-> <<>>]
    ELSE
    LET mdx == d.resources[i]
    IN  Let(lookup_record(mdx, key, io, dsk.mdd[mdx.file]), LAMBDA r :
        Let(get_resource_last_hit([d EXCEPT !.resources[i] = r.mdx], dsk, key, io,
                                  i + 1, Append(searched, mdx.file)), LAMBDA rest :
            IF (IsOk(r.res) /\ ~r.res.val.some) \/ (IsOk(rest.res) /\ rest.res.val.some)
            THEN rest
            ELSE [rest EXCEPT !.res = r.res, !.log = r.log]))

\* the for loop of MDict::get_resource from resource i on
RECURSIVE get_resource_from(_, _, _, _, _, _)
get_resource_from(d, dsk, key, io, i, searched) ==
    IF i > Len(d.resources)
    THEN [res |-> Ok(None), dict |-> d, searched |-> searched, log |-> <<>>]
    ELSE
    LET mdx == d.resources[i]
    IN  Let(lookup_record(mdx, key, io, dsk.mdd[mdx.file]), LAMBDA r :
            IF IsOk(r.res) /\ ~r.res.val.some
            THEN get_resource_from([d EXCEPT !.resources[i] = r.mdx], dsk, key, io,
                                   i + 1, Append(searched, mdx.file))
            ELSE [res |-> r.res, dict |-> [d EXCEPT !.resources[i] = r.mdx],
                  searched |-> Append(searched, mdx.file), log |-> r.log])

MDict_get_resource(d, dsk, path, io) ==
    get_resource_from(d, dsk, key_maker(path, TRUE), io, 1, <<>>)

(***************************************************************************)
(* Files.  MkFile writes a well-formed file the way the loader reads it;   *)
(* the damaged files differ from it in one place.                          *)
(***************************************************************************)
be(n, w) ==
    [i \in 1..w |-> IF i = w THEN n % 256
                    ELSE IF i = w - 1 THEN (n \div 256) % 256
                    ELSE 0]

RECURSIVE encode_text(_, _)
encode_text(encoding, text) ==
    IF text = <<>> THEN <<>>
    ELSE (IF encoding = "UTF-16LE"
          THEN <<Head(text) % 256, Head(text) \div 256>>
          ELSE <<Head(text)>>) \o encode_text(encoding, Tail(text))

nul(encoding) == IF encoding = "UTF-16LE" THEN <<0, 0>> ELSE <<0>>

RECURSIVE encode_entries(_, _)
encode_entries(h, entries) ==
    IF entries = <<>> THEN <<>>
    ELSE be(Head(entries).offset, size_width(h))
         \o encode_text(h.encoding, Head(entries).text) \o nul(h.encoding)
         \o encode_entries(h, Tail(entries))

info_text(h, text) ==
    be(Len(text), num_width(h)) \o encode_text(h.encoding, text)
    \o (IF h.version = "V1" THEN <<>> ELSE nul(h.encoding))

RECURSIVE encode_info_table(_, _, _, _)
encode_info_table(h, kblocks, keys, i) ==
    IF i > Len(kblocks) THEN <<>>
    ELSE be(Len(kblocks[i]), size_width(h))
         \o info_text(h, kblocks[i][1].text)
         \o info_text(h, kblocks[i][Len(kblocks[i])].text)
         \o be(keys[i].size, size_width(h)) \o be(Len(keys[i].plain), size_width(h))
         \o encode_info_table(h, kblocks, keys, i + 1)

StoredBlock(enc, plain) ==
    [enc |-> enc, checksum |-> RollingAdler32(plain), plain |-> plain,
     unpack |-> TRUE, size |-> 8 + Len(plain)]

RECURSIVE total_size(_)
total_size(blocks) ==
    IF blocks = <<>> THEN 0 ELSE Head(blocks).size + total_size(Tail(blocks))

Absent == [exists |-> FALSE]

\* key blocks kblocks (sequences of [offset, text], none empty), record blocks
\* with the decoded bytes rplains, every block stored under method byte enc
MkFile(attrs, kblocks, rplains, enc) ==
    Let(read_header([length |-> 9,
                     header |-> [blob |-> <<1>>, checksum |-> RollingAdler32(<<1>>),
                                 attrs |-> attrs]], "UTF-16LE").val, LAMBDA h :
    Let([i \in 1..Len(kblocks) |-> StoredBlock(enc, encode_entries(h, kblocks[i]))],
        LAMBDA keys :
    Let(encode_info_table(h, kblocks, keys, 1), LAMBDA table :
    Let([i \in 1..Len(rplains) |-> StoredBlock(enc, rplains[i])], LAMBDA records :
    Let(IF h.version = "V1" THEN Len(table) ELSE 8 + Len(table), LAMBDA block_info_size :
    Let(total_size(keys), LAMBDA key_block_size :
    Let(9 + kbh_size(h) + block_info_size + key_block_size
          + size_width(h) * (4 + 2 * Len(records)), LAMBDA record_start :
        [exists |-> TRUE,
         length |-> record_start + total_size(records),
         header |-> [blob |-> <<1>>, checksum |-> RollingAdler32(<<1>>), attrs |-> attrs],
         kbh |-> [blob |-> <<block_info_size % 256, key_block_size % 256>>,
                  checksum |-> RollingAdler32(<<block_info_size % 256,
                                                key_block_size % 256>>),
                  block_info_size |-> block_info_size,
                  key_block_size |-> key_block_size],
         kinfo |-> [magic |-> <<2, 0, 0, 0>>, checksum |-> RollingAdler32(table),
                    scrambled |-> encrypted_value(attrs) = 2, zlib_ok |-> TRUE,
                    body_size |-> Len(table), table |-> table],
         keys |-> keys,
         recinfo |-> [i \in 1..Len(records) |->
                        [compressed_size |-> records[i].size,
                         decompressed_size |-> Len(rplains[i])]],
         records |-> records,
         record_start |-> record_start])))))))

(***************************************************************************)
(* The files of the model                                                  *)
(***************************************************************************)
V2Utf8 == [GeneratedByEngineVersion |-> <<50, 46, 48>>, Encoding |-> "UTF-8"]
V1Plain == [GeneratedByEngineVersion |-> <<49, 46, 50>>]
V2Plain == [GeneratedByEngineVersion |-> <<50, 46, 48>>]

E(offset, text) == [offset |-> offset, text |-> text]

\* V2, UTF-8, zlib: keys a, b | c over two record blocks
MdxA == MkFile(V2Utf8,
               << <<E(0, <<97>>), E(3, <<98>>)>>, <<E(5, <<99>>)>> >>,
               << <<112, 113, 0, 114, 0>>, <<115, 116, 117, 0>> >>, 2)

\* V1, UTF-16LE, stored: keys Ab, b in one block over one record block
MdxB == MkFile(V1Plain,
               << <<E(0, <<65, 98>>), E(8, <<98>>)>> >>,
               << <<224, 101, 13, 0, 10, 0, 0, 0, 225, 101, 13, 0, 10, 0, 0, 0>> >>, 0)

\* resource files: V2, UTF-16LE keys
MddA == MkFile(V2Plain, << <<E(0, <<97>>), E(4, <<99>>)>> >>,
               << <<7, 8, 9, 0, 10, 11, 12, 0>> >>, 2)
MddB == MkFile(V2Plain, << <<E(0, <<97>>), E(4, <<98>>)>> >>,
               << <<20, 21, 22, 0, 30, 31, 32, 0>> >>, 2)

\* a resource file whose header names an encoding: V2, UTF-8 keys
MddC == MkFile(V2Utf8, << <<E(0, <<97>>), E(4, <<100>>)>> >>,
               << <<40, 41, 42, 0, 50, 51, 52, 0>> >>, 2)

NoSiblings == [i \in Slots |-> Absent]

\* every slot is empty or holds MddA (even slots) or MddB (odd slots)
SiblingConfigs ==
    {m \in [Slots -> {Absent, MddA, MddB}] :
        \A i \in Slots : m[i] \in {Absent, IF i % 2 = 0 THEN MddA ELSE MddB}}

WithAttrs(f, attrs) == [f EXCEPT !.header.attrs = attrs]

\* files that fail in a stage of load
DamagedAtLoad(f) ==
    { [f EXCEPT !.header.checksum = <<0, 0>>],
      WithAttrs(f, [Encoding |-> "UTF-8"]),
      WithAttrs(f, [f.header.attrs EXCEPT !.GeneratedByEngineVersion = <<51, 46, 48>>]),
      WithAttrs(f, [f.header.attrs EXCEPT !.GeneratedByEngineVersion = <<48>>]),
      WithAttrs(f, [f.header.attrs EXCEPT !.GeneratedByEngineVersion = <<120>>]),
      WithAttrs(f, [f.header.attrs EXCEPT !.GeneratedByEngineVersion = <<32>>]),
      WithAttrs(f, [f.header.attrs EXCEPT !.GeneratedByEngineVersion = <<233>>]),
      WithAttrs(f, [GeneratedByEngineVersion |-> <<50>>, Encoding |-> "bogus"]),
      WithAttrs(f, [GeneratedByEngineVersion |-> <<50>>, Encoding |-> "GBK"]),
      [f EXCEPT !.kbh.block_info_size = 6],
      [f EXCEPT !.kbh.block_info_size = 2],
      [f EXCEPT !.kinfo.table = SliceTo(@, Len(@) - 3),
                !.kinfo.checksum = RollingAdler32(SliceTo(f.kinfo.table, Len(f.kinfo.table) - 3))],
      [f EXCEPT !.keys[1].checksum = <<0, 0>>],
      [f EXCEPT !.keys[1].enc = 50],
      [f EXCEPT !.keys[1].enc = 3],
      [f EXCEPT !.keys[1].plain = SliceTo(@, Len(@) - 1),
                !.keys[1].checksum = RollingAdler32(SliceTo(f.keys[1].plain, Len(f.keys[1].plain) - 1))],
      [f EXCEPT !.keys[1].plain = @ \o <<0, 0>>,
                !.keys[1].checksum = RollingAdler32(f.keys[1].plain \o <<0, 0>>)] }
    \cup { [f EXCEPT !.length = n] :
             n \in {5, 12, f.record_start - 3, f.record_start - 40} }

\* damage to what only a V2 file has: the key-block header checksum and the
\* compressed, checksummed key-block-info
DamagedV2AtLoad(f) ==
    { [f EXCEPT !.kbh.checksum = <<0, 0>>],
      [f EXCEPT !.kinfo.magic = <<1, 0, 0, 0>>],
      [f EXCEPT !.kinfo.checksum = <<0, 0>>],
      [f EXCEPT !.kinfo.zlib_ok = FALSE],
      [f EXCEPT !.kinfo.scrambled = TRUE] }

\* zlib blocks that do not decompress
KeyBlockUndecompressable(f) == [f EXCEPT !.keys[1].unpack = FALSE]
RecordBlockUndecompressable(f) == [f EXCEPT !.records[1].unpack = FALSE]

\* f with the header attribute Encrypted = x and its key-block-info written
\* scrambled or not
WithEncrypted(f, x, scrambled) ==
    [f EXCEPT !.header.attrs = [GeneratedByEngineVersion |-> <<50, 46, 48>>,
                                Encoding |-> "UTF-8", Encrypted |-> x],
              !.kinfo.scrambled = scrambled]

EncryptedValues == {"0", "1", "2", "3", "Yes"}

\* files that load and fail, or miss, in a lookup
DamagedAtLookup(f) ==
    { [f EXCEPT !.records[1].checksum = <<0, 0>>],
      [f EXCEPT !.records[1].enc = 48],
      [f EXCEPT !.records[1].enc = 7],
      [f EXCEPT !.recinfo[1].compressed_size = 4],
      [f EXCEPT !.recinfo[1].decompressed_size = 2],
      [f EXCEPT !.records[1].plain = [i \in DOMAIN @ |-> IF @[i] = 0 THEN 1 ELSE @[i]],
                !.records[1].checksum = RollingAdler32(
                    [i \in DOMAIN f.records[1].plain |->
                        IF f.records[1].plain[i] = 0 THEN 1 ELSE f.records[1].plain[i]])],
      [f EXCEPT !.records[1].plain = <<0>> \o Tail(@),
                !.records[1].checksum = RollingAdler32(<<0>> \o Tail(f.records[1].plain))],
      [f EXCEPT !.length = f.record_start + 3] }

Disks ==
    { [mdx |-> MdxA, mdd |-> m] : m \in SiblingConfigs }
    \cup { [mdx |-> f, mdd |-> NoSiblings] :
             f \in {MdxB, Absent, WithAttrs(MdxA, [V2Utf8 EXCEPT !.Encoding = ""])}
                   \cup DamagedAtLoad(MdxA) \cup DamagedAtLoad(MdxB)
                   \cup DamagedV2AtLoad(MdxA) \cup {KeyBlockUndecompressable(MdxA)}
                   \cup DamagedAtLookup(MdxA) \cup DamagedAtLookup(MdxB)
                   \cup {RecordBlockUndecompressable(MdxA)}
                   \cup {WithEncrypted(MdxA, x, sc) : x \in EncryptedValues, sc \in BOOLEAN}
                   \cup {[WithEncrypted(MdxA, "2", TRUE) EXCEPT !.kinfo.checksum = <<0, 0>>]} }
    \cup { [mdx |-> MdxA, mdd |-> [NoSiblings EXCEPT ![0] = f]] :
             f \in DamagedAtLookup(MddA)
                   \cup {RecordBlockUndecompressable(MddA),
                         [MddA EXCEPT !.header.checksum = <<0, 0>>],
                         MddC} }
    \cup { [mdx |-> MdxA, mdd |-> [NoSiblings EXCEPT ![0] = MddA, ![1] = f]] :
             f \in {[MddB EXCEPT !.kinfo.checksum = <<0, 0>>],
                    [MddB EXCEPT !.kbh.block_info_size = 6],
                    [MddB EXCEPT !.records[1].checksum = <<0, 0>>]} }

Words == {<<>>, <<97>>, <<98>>, <<99>>, <<65, 98>>}

IOs == { [fail |-> "none", consumed |-> FALSE],
         [fail |-> "seek", consumed |-> FALSE],
         [fail |-> "read", consumed |-> FALSE],
         [fail |-> "read", consumed |-> TRUE] }

Paths == {"ok", "no_parent", "bad_stem"}

NoDict == [mdx |-> None, resources |-> <<>>]
NoTrace == [loads |-> <<>>, searched |-> <<>>, log |-> <<>>]

(***************************************************************************)
(* The handle's life                                                       *)
(***************************************************************************)
Init ==
    /\ disk \in Disks
    /\ state = "Unopened"
    /\ dict = NoDict
    /\ result = [op |-> "none", arg |-> <<>>, res |-> Ok(None)]
    /\ trace = NoTrace
    /\ fin = <<>>
    /\ fout = <<>>

\* what open leaves: b is what build_with_key_maker returned
Opened(b) ==
    /\ state' = CASE IsOk(b.res) -> "Ready"
                  [] IsErr(b.res) -> "Unopened"
                  [] OTHER -> "Panicked"
    /\ dict' = IF IsOk(b.res) THEN b.res.val ELSE NoDict
    /\ result' = [op |-> "open", arg |-> <<>>,
                  res |-> IF IsOk(b.res) THEN Ok(None) ELSE b.res]
    /\ trace' = [NoTrace EXCEPT !.loads = b.loads]
    /\ UNCHANGED <<disk, fin, fout>>

Open(path, cache_definition, cache_resource) ==
    /\ state = "Unopened"
    /\ Opened(build_with_key_maker(disk, path, cache_definition, cache_resource))

Finish(r, op, arg) ==
    /\ state' = IF IsPanic(r.res) THEN "Panicked" ELSE "Ready"
    /\ dict' = r.dict
    /\ result' = [op |-> op, arg |-> arg, res |-> r.res]
    /\ trace' = [NoTrace EXCEPT !.searched = r.searched, !.log = r.log]
    /\ UNCHANGED <<disk, fin, fout>>

Lookup(word, io) ==
    /\ state = "Ready"
    /\ Finish(MDict_lookup(dict, disk, word, io), "lookup", word)

GetResource(path, io) ==
    /\ state = "Ready"
    /\ Finish(MDict_get_resource(dict, disk, path, io), "get_resource", path)

Next ==
    \/ \E path \in Paths, cd \in BOOLEAN, cr \in BOOLEAN : Open(path, cd, cr)
    \/ \E word \in Words, io \in IOs : Lookup(word, io)
    \/ \E path \in Words, io \in IOs : GetResource(path, io)

Spec == Init /\ [][Next]_vars

(***************************************************************************)
(* The index search on its own.  An index is written to a file by MkFile,  *)
(* opened with build_with_key_maker and queried once with MDict::lookup.   *)
(* fin = [index, word], fout = what the query did.                         *)
(***************************************************************************)
MaxKeys == 4

KeyTexts == {<<>>, <<97>>, <<97, 97>>, <<97, 98>>, <<98>>, <<99>>}

Queries == KeyTexts \cup {<<65>>, <<97, 99>>, <<100>>}

\* the texts of S in the order of str::cmp
RECURSIVE sorted(_)
sorted(S) ==
    IF S = {} THEN <<>>
    ELSE Let(CHOOSE x \in S : \A y \in S : str_cmp(x, y) # "Greater", LAMBDA m :
             <<m>> \o sorted(S \ {m}))

\* entry i is stored at offset 3 * (i - 1): its record is two bytes and a NUL
entries_of(texts) == [i \in 1..Len(texts) |-> E(3 * (i - 1), texts[i])]

records_of(texts) ==
    IF texts = <<>> THEN <<>>
    ELSE <<[j \in 1..(3 * Len(texts)) |->
              IF j % 3 = 0 THEN 0 ELSE 48 + ((j + 2) \div 3)]>>

\* the entries es in key blocks that end after the positions in cuts
RECURSIVE cut(_, _, _, _)
cut(es, cuts, i, cur) ==
    IF i > Len(es) THEN (IF cur = <<>> THEN <<>> ELSE <<cur>>)
    ELSE IF i \in cuts THEN <<Append(cur, es[i])>> \o cut(es, cuts, i + 1, <<>>)
    ELSE cut(es, cuts, i + 1, Append(cur, es[i]))

Reverse(s) == [i \in 1..Len(s) |-> s[Len(s) + 1 - i]]

\* every way to store at most MaxKeys of the texts in sorted key blocks, and the
\* same blocks written in reverse order
Indexes ==
    Let(UNION { { [texts |-> sorted(S),
                   blocks |-> cut(entries_of(sorted(S)), c, 1, <<>>)] :
                    c \in SUBSET (1..(Cardinality(S) - 1)) } :
                S \in {T \in SUBSET KeyTexts : Cardinality(T) <= MaxKeys} },
        LAMBDA Sorted :
        Sorted \cup { [ix EXCEPT !.blocks = Reverse(@)] :
                        ix \in {jx \in Sorted : Len(jx.blocks) = 2} })

IndexFile(ix) == MkFile(V2Utf8, ix.blocks, records_of(ix.texts), 2)

NotSearched == [done |-> FALSE]

InitSearch ==
    /\ fin \in [index : Indexes, word : Queries]
    /\ fout = NotSearched
    /\ disk = [mdx |-> Absent, mdd |-> NoSiblings]
    /\ state = "Unopened"
    /\ dict = NoDict
    /\ result = [op |-> "none", arg |-> <<>>, res |-> Ok(None)]
    /\ trace = NoTrace

\* the handle b opened on dsk is asked for fin.word
Asked(dsk, b) ==
    Let(key_maker(fin.word, FALSE), LAMBDA key :
    Let(bisect_search(b.res.val.mdx.key_blocks, key), LAMBDA key_block :
    Let(MDict_lookup(b.res.val, dsk, fin.word, [fail |-> "none", consumed |-> FALSE]),
        LAMBDA r :
        [done |-> TRUE,
         opened |-> b.res.kind,
         key_blocks |-> IF IsOk(b.res) THEN b.res.val.mdx.key_blocks ELSE <<>>,
         entry |-> IF IsOk(b.res) /\ key_block.some
                   THEN bisect_search(key_block.val.entries, key)
                   ELSE None,
         res |-> IF IsOk(b.res) THEN r.res ELSE b.res,
         log |-> IF IsOk(b.res) THEN r.log ELSE <<>>])))

Searched(dsk) ==
    /\ fout' = Asked(dsk, build_with_key_maker(dsk, "ok", TRUE, TRUE))
    /\ UNCHANGED <<disk, state, dict, result, trace, fin>>

Search ==
    /\ ~fout.done
    /\ Searched([mdx |-> IndexFile(fin.index), mdd |-> NoSiblings])

NextSearch == Search

SpecSearch == InitSearch /\ [][NextSearch]_vars

(***************************************************************************)
(* Offset translation on its own.  fin = [records_info, offset]: a handle  *)
(* whose index has the one key "a" at the offset, over record blocks of    *)
(* the given sizes, is asked for "a".  fout = what record_offset and the   *)
(* lookup returned.                                                        *)
(***************************************************************************)
MaxBlocks == 3
MaxOffset == 9

CompressedSizes == {10, 13}
DecompressedSizes == {0, 2, 3}

RecordsInfos ==
    UNION { [1..n -> [compressed_size : CompressedSizes,
                      decompressed_size : DecompressedSizes]] : n \in 0..MaxBlocks }

\* a zlib record block of the declared sizes: text bytes and a closing NUL
SizedBlock(info) ==
    [StoredBlock(2, [j \in 1..info.decompressed_size |->
                        IF j = info.decompressed_size THEN 0 ELSE 49])
        EXCEPT !.size = info.compressed_size]

\* the record region of a file whose record-info is records_info
RecordRegion(records_info) ==
    Let([i \in DOMAIN records_info |-> SizedBlock(records_info[i])], LAMBDA records :
        [exists |-> TRUE, length |-> total_size(records),
         records |-> records, record_start |-> 0])

\* the handle load returns for that file when its index is the key "a" at offset
OneKeyHandle(records_info, offset) ==
    [file |-> -1, encoding |-> "UTF-8", encrypted |-> 0,
     key_blocks |-> << [entries |-> <<E(offset, <<97>>)>>] >>,
     records_info |-> records_info,
     reader |-> [pos |-> 0], record_block_offset |-> 0,
     record_cache |-> Some(<<>>)]

NotTranslated == [done |-> FALSE]

InitOffset ==
    /\ fin \in [records_info : RecordsInfos, offset : 0..MaxOffset]
    /\ fout = NotTranslated
    /\ disk = [mdx |-> Absent, mdd |-> NoSiblings]
    /\ state = "Unopened"
    /\ dict = NoDict
    /\ result = [op |-> "none", arg |-> <<>>, res |-> Ok(None)]
    /\ trace = NoTrace

Translated(r) ==
    /\ fout' = [done |-> TRUE,
                offset |-> record_offset(fin.records_info, E(fin.offset, <<97>>)),
                res |-> r.res, log |-> r.log]
    /\ UNCHANGED <<disk, state, dict, result, trace, fin>>

Translate ==
    /\ ~fout.done
    /\ Translated(lookup_record(OneKeyHandle(fin.records_info, fin.offset), <<97>>,
                                [fail |-> "none", consumed |-> FALSE],
                                RecordRegion(fin.records_info)))

NextOffset == Translate

SpecOffset == InitOffset /\ [][NextOffset]_vars

(***************************************************************************)
(* The lookup one loop iteration at a time.  fin = [key_blocks,            *)
(* records_info, word]; fout is the position of lookup_record: pc is       *)
(* "blocks" or "entries" (the while loop of bisect_search over slice),     *)
(* "offset" (the for loop of record_offset at block i), "fetch"            *)
(* (find_definition) or "done".                                            *)
(***************************************************************************)
MaxKeyBlocks == 3

\* variant: the Less arm keeps the probed element in the slice
after_less_keeping_probe(slice, idx) ==
    [ctl |-> "continue", slice |-> SliceFrom(slice, idx), hit |-> None]

\* the Less arm: break when nothing is left after the probe
after_less(slice, idx) ==
    IF idx + 1 >= Len(slice)
    THEN [ctl |-> "break", slice |-> <<>>, hit |-> None]
    ELSE [ctl |-> "continue", slice |-> SliceFrom(slice, idx + 1), hit |-> None]

\* one iteration of the while loop on a non-empty slice: return, break or
\* continue with a new slice; none tells that partial_cmp gave None
bisect_step(slice, word) ==
    LET idx == Len(slice) \div 2
        current == slice[(Len(slice) \div 2) + 1]
    IN  Let(partial_cmp(current, word), LAMBDA c :
            [none |-> c = "None"] @@
            (CASE c = "None" -> [ctl |-> "break", slice |-> <<>>, hit |-> None]
               [] c = "Greater" ->
                    [ctl |-> "continue", slice |-> SliceTo(slice, idx), hit |-> None]
               [] c = "Equal" -> [ctl |-> "return", slice |-> <<>>, hit |-> Some(current)]
               [] c = "Less" -> after_less(slice, idx)))

\* key blocks as read_key_blocks can return them; a stored block of no bytes
\* gives a block without entries
StepBlocks ==
    { <<>>,
      <<E(0, <<97>>)>>,
      <<E(0, <<97>>), E(2, <<98>>)>>,
      <<E(2, <<98>>), E(4, <<99>>), E(5, <<100>>)>>,
      <<E(7, <<100>>)>> }

StepIndexes ==
    UNION { [1..n -> {[entries |-> b] : b \in StepBlocks}] : n \in 0..MaxKeyBlocks }

StepWords == {<<>>, <<97>>, <<98>>, <<99>>, <<100>>, <<101>>}

StepRecordsInfos ==
    { <<>>,
      <<[compressed_size |-> 10, decompressed_size |-> 3]>>,
      <<[compressed_size |-> 10, decompressed_size |-> 2],
        [compressed_size |-> 13, decompressed_size |-> 3]>>,
      <<[compressed_size |-> 10, decompressed_size |-> 0],
        [compressed_size |-> 13, decompressed_size |-> 3],
        [compressed_size |-> 10, decompressed_size |-> 3]>> }

\* the handle load returns for a file with that index and record-info
StepHandle(key_blocks, records_info) ==
    [file |-> -1, encoding |-> "UTF-8", encrypted |-> 0,
     key_blocks |-> key_blocks,
     records_info |-> records_info,
     reader |-> [pos |-> 0], record_block_offset |-> 0,
     record_cache |-> Some(<<>>)]

Started(slice) ==
    [pc |-> "blocks", slice |-> slice, cmp_none |-> FALSE, entry |-> None,
     i |-> 0, block_offset |-> 0, buf_offset |-> 0, offset |-> None, res |-> Ok(None)]

InitSteps ==
    /\ fin \in [key_blocks : StepIndexes, records_info : StepRecordsInfos,
                word : StepWords]
    /\ fout = Started(fin.key_blocks)
    /\ disk = [mdx |-> Absent, mdd |-> NoSiblings]
    /\ state = "Unopened"
    /\ dict = NoDict
    /\ result = [op |-> "none", arg |-> <<>>, res |-> Ok(None)]
    /\ trace = NoTrace

\* lookup_record falls through to Ok(None)
Missed == [fout EXCEPT !.pc = "done", !.slice = <<>>, !.res = Ok(None)]

\* what an iteration of bisect_search leaves; found is the position after a hit
Iterated(s, found) ==
    /\ fout' = CASE s.ctl = "return" -> found
                 [] s.ctl = "break" -> [Missed EXCEPT !.cmp_none = s.none]
                 [] OTHER -> [fout EXCEPT !.slice = s.slice]
    /\ UNCHANGED <<disk, state, dict, result, trace, fin>>

Finished(f) ==
    /\ fout' = f
    /\ UNCHANGED <<disk, state, dict, result, trace, fin>>

\* bisect_search(&mdx.key_blocks, word): the loop test and one iteration
BisectBlocks ==
    /\ fout.pc = "blocks"
    /\ IF fout.slice = <<>> THEN Finished(Missed)
       ELSE Iterated(bisect_step(fout.slice, fin.word),
                     [fout EXCEPT !.pc = "entries",
                                  !.slice = bisect_step(fout.slice, fin.word).hit.val.entries])

\* bisect_search(&key_block.entries, word)
BisectEntries ==
    /\ fout.pc = "entries"
    /\ IF fout.slice = <<>> THEN Finished(Missed)
       ELSE Iterated(bisect_step(fout.slice, fin.word),
                     [fout EXCEPT !.pc = "offset", !.slice = <<>>, !.i = 1,
                                  !.entry = bisect_step(fout.slice, fin.word).hit])

\* record_offset: the for loop at block i
WalkRecordsInfo ==
    /\ fout.pc = "offset"
    /\ IF fout.i > Len(fin.records_info) THEN Finished(Missed)
       ELSE LET info == fin.records_info[fout.i]
            IN  IF fout.entry.val.offset < fout.block_offset + info.decompressed_size
                THEN Finished([fout EXCEPT
                        !.pc = "fetch",
                        !.offset = Some([buf_offset |-> fout.buf_offset,
                                         block_offset |-> fout.entry.val.offset
                                                            - fout.block_offset,
                                         record_size |-> info.compressed_size,
                                         decomp_size |-> info.decompressed_size])])
                ELSE Finished([fout EXCEPT
                        !.i = @ + 1,
                        !.block_offset = @ + info.decompressed_size,
                        !.buf_offset = @ + info.compressed_size])

\* find_definition(mdx, offset)? and the return of lookup_record
Returned(d) ==
    Finished([fout EXCEPT !.pc = "done",
                          !.res = IF IsOk(d.res) THEN Ok(Some(d.res.val)) ELSE d.res])

FetchDefinition ==
    /\ fout.pc = "fetch"
    /\ Returned(find_definition(StepHandle(fin.key_blocks, fin.records_info),
                                fout.offset.val,
                                [fail |-> "none", consumed |-> FALSE],
                                RecordRegion(fin.records_info)))

NextSteps == BisectBlocks \/ BisectEntries \/ WalkRecordsInfo \/ FetchDefinition

\* the code of a lookup runs on until it returns
SpecSteps == InitSteps /\ [][NextSteps]_vars /\ WF_vars(NextSteps)

(***************************************************************************)
(* Properties of the index search (SpecSearch)                             *)
(***************************************************************************)
RECURSIVE Flat(_)
Flat(blocks) == IF blocks = <<>> THEN <<>> ELSE Head(blocks).entries \o Flat(Tail(blocks))

\* key blocks non-empty, sorted and non-overlapping under str::cmp
WellOrdered(blocks) ==
    /\ \A b \in DOMAIN blocks : blocks[b].entries # <<>>
    /\ LET es == Flat(blocks)
       IN  \A i \in 1..(Len(es) - 1) : str_cmp(es[i].text, es[i + 1].text) = "Less"

StoredEntries ==
    UNION { {fin.index.blocks[b][i] : i \in DOMAIN fin.index.blocks[b]} :
            b \in DOMAIN fin.index.blocks }

MissingKeyIsNone ==
    (/\ fout.done /\ fout.opened = "Ok"
     /\ \A e \in StoredEntries : e.text # key_maker(fin.word, FALSE))
    => /\ fout.res = Ok(None)
       /\ fout.log = <<>>

\* a query that sorts between two consecutive blocks has been answered with None
BetweenBlocksMiss ==
    /\ fout.done /\ fout.opened = "Ok"
    /\ WellOrdered(fout.key_blocks)
    /\ Len(fout.key_blocks) >= 2
    /\ str_cmp(fout.key_blocks[1].entries[Len(fout.key_blocks[1].entries)].text,
               key_maker(fin.word, FALSE)) = "Less"
    /\ str_cmp(fout.key_blocks[2].entries[1].text, key_maker(fin.word, FALSE)) = "Greater"
    /\ fout.res = Ok(None)

(***************************************************************************)
(* Properties of the handle (Spec)                                         *)
(***************************************************************************)
NoFault == [fail |-> "none", consumed |-> FALSE]

Entries(mdx) == {Flat(mdx.key_blocks)[i] : i \in DOMAIN Flat(mdx.key_blocks)}

RECURSIVE decompressed_total(_)
decompressed_total(records_info) ==
    IF records_info = <<>> THEN 0
    ELSE Head(records_info).decompressed_size + decompressed_total(Tail(records_info))

\* the bytes from the entry's offset to the next entry's offset, or to the end of
\* the record region for the last entry
span(mdx, entry) ==
    LET later == {e.offset : e \in {x \in Entries(mdx) : x.offset > entry.offset}}
        next == IF later = {} THEN decompressed_total(mdx.records_info)
                ELSE CHOOSE o \in later : \A q \in later : o <= q
    IN  next - entry.offset

Sound == {MdxA, MdxB}

\* C3: a lookup of a stored key returns a non-empty payload whose size is the
\* distance from the entry's offset to the next entry's offset (or to the end of
\* the record region for the last entry).
PayloadSpansEntry ==
    (/\ state = "Ready" /\ disk.mdx \in Sound
     /\ result.op = "lookup" /\ IsOk(result.res) /\ result.res.val.some)
    => \E e \in Entries(dict.mdx) :
          /\ e.text = key_maker(result.arg, FALSE)
          /\ result.res.val.val # <<>>
          /\ Len(encode_text(dict.mdx.encoding, result.res.val.val)) = span(dict.mdx, e)

\* the handle a new load of the primary file gives
Reopened(cache) == [mdx |-> load(-1, disk.mdx, cache).res.val, resources |-> <<>>]

\* C4: every handle reached by any sequence of lookups, with the cache on or
\* off, answers each query exactly as a newly opened handle without a cache:
\* repeating a lookup gives the same payload, and a caching handle gives the
\* results of a handle that does not cache.
RepeatableAndCacheTransparent ==
    state = "Ready" =>
        LET plain == Reopened(FALSE)
        IN  \A w \in Words :
                MDict_lookup(dict, disk, w, NoFault).res
                    = MDict_lookup(plain, disk, w, NoFault).res

\* a lookup has been answered from the record cache
AnsweredFromCache ==
    /\ state = "Ready"
    /\ result.op = "lookup" /\ IsOk(result.res) /\ result.res.val.some
    /\ trace.log = <<>>
    /\ dict.mdx.record_cache.some
    /\ DOMAIN dict.mdx.record_cache.val # {}

\* C5: every stored key text is the normalized form of the raw key, so a stored
\* key is found by looking up the raw key.
StoredKeysNormalized ==
    state = "Ready" =>
        \A e \in Entries(dict.mdx) :
            /\ e.text = key_maker(e.text, FALSE)
            /\ MDict_lookup(dict, disk, e.text, NoFault).res # Ok(None)

\* the steps of the Vacant arm that ended before decode_block returned a block
FailedBeforeDecoded(log) ==
    log # <<>> /\ \A i \in DOMAIN log : log[i].op # "decode_block"

Index(mdx) == [key_blocks |-> mdx.key_blocks, records_info |-> mdx.records_info,
               record_block_offset |-> mdx.record_block_offset]

Answers(d) ==
    [w \in Words |-> <<MDict_lookup(d, disk, w, NoFault).res,
                       MDict_get_resource(d, disk, w, NoFault).res>>]

FailedLookupStep ==
    /\ state = "Ready"
    /\ result'.op \in {"lookup", "get_resource"}
    /\ IsErr(result'.res)

\* C6: a lookup or get_resource that returns an error leaves the handle Ready
\* with the key index, records_info and record_block_offset of every file
\* unchanged and every later query answered as before; when the error came from
\* the seek, the read or decode_block, the record caches are unchanged too.
FailedLookupLeavesHandle ==
    [][FailedLookupStep =>
        /\ state' = "Ready"
        /\ Index(dict'.mdx) = Index(dict.mdx)
        /\ Len(dict'.resources) = Len(dict.resources)
        /\ \A i \in DOMAIN dict.resources :
              Index(dict'.resources[i]) = Index(dict.resources[i])
        /\ dict' = dict \/ Answers(dict') = Answers(dict)
        /\ FailedBeforeDecoded(trace'.log) =>
              /\ dict'.mdx.record_cache = dict.mdx.record_cache
              /\ \A i \in DOMAIN dict.resources :
                    dict'.resources[i].record_cache = dict.resources[i].record_cache]_vars

\* decode_block has failed in a lookup on a handle that caches
LookupFailedInDecodeBlock ==
    /\ state = "Ready"
    /\ result.op = "lookup" /\ IsErr(result.res)
    /\ result.res.name \in {"InvalidCheckSum", "InvalidData", "InvalidEncryptMethod",
                            "InvalidCompressMethod"}
    /\ Len(trace.log) = 2
    /\ dict.mdx.record_cache = Some(<<>>)

\* the siblings open finds: name.mdd, then name.1.mdd, ... up to the first gap
Discovered == {i \in Slots : \A j \in 0..i : disk.mdd[j].exists}

\* files whose header, key sections and record-info are intact
Loadable ==
    {MdxA, MdxB, MddA, MddB, MddC}
    \cup DamagedAtLookup(MdxA) \cup DamagedAtLookup(MdxB)
    \cup DamagedAtLookup(MddA) \cup DamagedAtLookup(MddB)
    \cup {RecordBlockUndecompressable(MdxA), RecordBlockUndecompressable(MddA)}
    \cup {WithEncrypted(MdxA, "2", TRUE)}
    \cup {WithEncrypted(MdxA, x, FALSE) : x \in EncryptedValues \ {"2"}}

\* C7: open is all-or-nothing.  A failed open leaves no handle and the state
\* Unopened; a handle is Ready only when the primary file and every discovered
\* sibling went through all five stages; lookups are answered only by a handle
\* that went through open.
OpenAllOrNothing ==
    /\ state = "Unopened" => dict = NoDict
    /\ (result.op = "open" /\ ~IsOk(result.res)) => dict = NoDict
    /\ (result.op = "open" /\ IsErr(result.res)) => state = "Unopened"
    /\ (result.op = "open" /\ \E i \in DOMAIN trace.loads : trace.loads[i].kind # "Ok")
          => (~IsOk(result.res) /\ state # "Ready")
    /\ state = "Ready" =>
          /\ disk.mdx \in Loadable
          /\ \A i \in Discovered : disk.mdd[i] \in Loadable
          /\ dict.mdx.file = -1
          /\ Len(dict.resources) = Cardinality(Discovered)
          /\ \A i \in DOMAIN dict.resources : dict.resources[i].file = i - 1
    /\ (result.op = "open" /\ state = "Ready") =>
          /\ Len(trace.loads) = 1 + Cardinality(Discovered)
          /\ \A i \in DOMAIN trace.loads :
                /\ trace.loads[i].kind = "Ok"
                /\ trace.loads[i].stages = AllStages
                /\ trace.loads[i].file = i - 2
    /\ result.op \in {"lookup", "get_resource"} => state \in {"Ready", "Panicked"}

\* the primary file loaded, a sibling did not, and open left no handle
SiblingFailureLeavesNoHandle ==
    /\ result.op = "open" /\ IsErr(result.res)
    /\ Len(trace.loads) >= 2
    /\ trace.loads[1].kind = "Ok"
    /\ trace.loads[Len(trace.loads)].kind = "Err"
    /\ state = "Unopened"
    /\ dict = NoDict

\* C8: no file and no query makes open, lookup or get_resource panic.
NeverPanics == state # "Panicked"

\* an MDD handle holds the key: it stores an entry with that text and, when
\* placed is asked for, the entry's offset lies inside one of its record blocks
holds(mdx, key, placed) ==
    \E e \in Entries(mdx) :
        /\ e.text = key
        /\ placed => record_offset(mdx.records_info, e).some

\* the first loaded MDD that holds the key, 0 if none does
first_holder(key, placed) ==
    LET H == {i \in DOMAIN dict.resources : holds(dict.resources[i], key, placed)}
    IN  IF H = {} THEN 0 ELSE CHOOSE i \in H : \A j \in H : i <= j

FirstHitRule(placed) ==
    (state = "Ready" /\ result'.op = "get_resource") =>
        LET key == key_maker(result'.arg, TRUE)
            h == first_holder(key, placed)
            files == [i \in DOMAIN dict.resources |-> dict.resources[i].file]
        IN  /\ dict'.mdx = dict.mdx
            /\ \A i \in DOMAIN trace'.searched : trace'.searched[i] # -1
            /\ result'.res = Ok(None) <=> h = 0
            /\ h = 0 => (trace'.searched = files /\ dict'.resources = dict.resources)
            /\ h # 0 =>
                  /\ trace'.searched = SliceTo(files, h)
                  /\ \E io \in IOs :
                        result'.res = lookup_record(dict.resources[h], key, io,
                                                    disk.mdd[files[h]]).res
                  /\ \A i \in DOMAIN dict.resources :
                        i # h => dict'.resources[i] = dict.resources[i]

section_of(stage) ==
    CASE stage = "header" -> "header"
      [] stage = "key-block-header" -> "header"
      [] stage = "key-block-info" -> "key-info"
      [] stage = "key-blocks" -> "key-block"
      [] OTHER -> "record-info"

\* C10: an Adler-32 mismatch is reported as InvalidCheckSum naming the section
\* where it occurred: "header", "key-info", "key-block" or "record-block".
ChecksumErrorNamesSection ==
    (IsErr(result.res) /\ result.res.name = "InvalidCheckSum") =>
        result.res.arg =
            IF result.op = "open"
            THEN LET last == trace.loads[Len(trace.loads)]
                 IN  section_of(last.stages[Len(last.stages)])
            ELSE "record-block"

(***************************************************************************)
(* Properties of the header reader (Spec)                                  *)
(***************************************************************************)
\* the primary file's header blob can be read and its checksum matches
HeaderIntact ==
    /\ disk.mdx.exists
    /\ 4 + Len(disk.mdx.header.blob) + 4 <= disk.mdx.length
    /\ IsOk(check_adler32(disk.mdx.header.blob, disk.mdx.header.checksum))

\* open went as far as the header of the primary file
HeaderWasRead ==
    result.op = "open" /\ trace.loads # <<>> /\ HeaderIntact

\* the first character of GeneratedByEngineVersion as a decimal digit, -1 when
\* it is no digit
first_digit(version_str) ==
    IF version_str # <<>> /\ version_str[1] >= 48 /\ version_str[1] <= 57
    THEN version_str[1] - 48
    ELSE -1

\* C11: with d the first character of GeneratedByEngineVersion read as a decimal
\* digit, d = 1 gives V1, d = 2 gives V2, d >= 3 gives UnsupportedVersion(d), a
\* non-digit gives InvalidVersion and an absent attribute gives NoVersion;
\* UnsupportedVersion(n) is raised only with n >= 3, and an error leaves no handle.
VersionDispatch ==
    HeaderWasRead =>
        LET attrs == disk.mdx.header.attrs
            h == read_header(disk.mdx, "UTF-16LE")
        IN  /\ ~IsOk(h) => (result.res = h /\ dict = NoDict /\ state # "Ready")
            /\ IF "GeneratedByEngineVersion" \notin DOMAIN attrs
               THEN h = Err("NoVersion", "")
               ELSE LET d == first_digit(trim(attrs.GeneratedByEngineVersion))
                    IN  /\ d = -1 => (IsErr(h) /\ h.name = "InvalidVersion")
                        /\ d = 1 => (IsOk(h) => h.val.version = "V1")
                        /\ d = 2 => (IsOk(h) => h.val.version = "V2")
                        /\ d \in {1, 2} => (IsOk(h) \/ (IsErr(h) /\ h.name = "InvalidEncoding"))
                        /\ d >= 3 => h = Err("UnsupportedVersion", MethodName(d))
                        /\ (IsErr(h) /\ h.name = "UnsupportedVersion") => d >= 3

\* the payload encoding the header attributes select for an MDX file
mdx_encoding(attrs) ==
    IF "Encoding" \notin DOMAIN attrs \/ attrs.Encoding = "" THEN Some("UTF-8")
    ELSE for_label(attrs.Encoding)

\* C12: for an MDX file an Encoding attribute that is absent or empty selects
\* UTF-8 and a non-empty label selects the registry's encoding (an unknown label
\* gives InvalidEncoding carrying the label); for an MDD file the encoding is
\* UTF-16LE whatever the Encoding attribute says.
EncodingChosen ==
    /\ state = "Ready" =>
          /\ dict.mdx.encoding = mdx_encoding(disk.mdx.header.attrs).val
          /\ \A i \in DOMAIN dict.resources : dict.resources[i].encoding = "UTF-16LE"
    /\ (/\ HeaderWasRead
        /\ "GeneratedByEngineVersion" \in DOMAIN disk.mdx.header.attrs
        /\ first_digit(trim(disk.mdx.header.attrs.GeneratedByEngineVersion)) \in {1, 2}
        /\ ~mdx_encoding(disk.mdx.header.attrs).some)
       => result.res = Err("InvalidEncoding", disk.mdx.header.attrs.Encoding)

(***************************************************************************)
(* Properties of sibling discovery (Spec)                                  *)
(***************************************************************************)
\* the files of the handles in resources, in order
files_of(resources) == [i \in DOMAIN resources |-> resources[i].file]

\* C13: open of name.mdx loads exactly name.mdd, name.1.mdd, ..., name.k.mdd in
\* that order, k + 1 being the first index whose file is missing; without
\* name.mdd no resource is loaded even when name.1.mdd exists, and a file after
\* a gap is never loaded.
SiblingDiscovery ==
    result.op = "open" =>
        /\ \A i \in DOMAIN trace.loads :
              /\ trace.loads[i].file = i - 2
              /\ trace.loads[i].file \in Discovered \cup {-1}
        /\ ~disk.mdd[0].exists => Len(trace.loads) <= 1
        /\ state = "Ready" =>
              /\ files_of(dict.resources) = [i \in 1..Cardinality(Discovered) |-> i - 1]
              /\ Len(trace.loads) = 1 + Cardinality(Discovered)

\* name.mdd is there, name.1.mdd is missing and name.2.mdd is there: open loaded
\* name.mdd alone
GapStopsDiscovery ==
    /\ result.op = "open" /\ state = "Ready"
    /\ disk.mdd[0].exists /\ ~disk.mdd[1].exists /\ disk.mdd[2].exists
    /\ files_of(dict.resources) = <<0>>
    /\ Len(trace.loads) = 2

(***************************************************************************)
(* Properties of offset translation (SpecOffset)                           *)
(***************************************************************************)
\* the sum of field over the blocks before block i
RECURSIVE sum_before(_, _, _)
sum_before(records_info, i, field) ==
    IF i <= 1 THEN 0
    ELSE records_info[i - 1][field] + sum_before(records_info, i - 1, field)

\* the blocks whose decompressed range holds offset o
blocks_holding(records_info, o) ==
    {i \in DOMAIN records_info :
        /\ sum_before(records_info, i, "decompressed_size") <= o
        /\ o < sum_before(records_info, i, "decompressed_size")
                 + records_info[i].decompressed_size}

\* C14: record_offset returns the first block i with S_d(i) <= o < S_d(i) +
\* decompressed_size(i), with buf_offset = S_c(i), block_offset = o - S_d(i)
\* (below decomp_size), record_size and decomp_size those of block i; it returns
\* None exactly when o is at or past the sum of all decompressed sizes, and then
\* the lookup returns Ok(None).
OffsetTranslation ==
    fout.done =>
        LET ri == fin.records_info
            o == fin.offset
            H == blocks_holding(ri, o)
        IN  IF o >= sum_before(ri, Len(ri) + 1, "decompressed_size")
            THEN /\ H = {}
                 /\ fout.offset = None
                 /\ fout.res = Ok(None)
                 /\ fout.log = <<>>
            ELSE /\ H # {}
                 /\ fout.offset.some
                 /\ LET i == CHOOSE h \in H : \A g \in H : h <= g
                        got == fout.offset.val
                    IN  /\ got.buf_offset = sum_before(ri, i, "compressed_size")
                        /\ got.block_offset = o - sum_before(ri, i, "decompressed_size")
                        /\ got.block_offset < got.decomp_size
                        /\ got.record_size = ri[i].compressed_size
                        /\ got.decomp_size = ri[i].decompressed_size
                 /\ fout.res # Ok(None)

\* an offset inside the third block, behind blocks of different sizes
ThirdBlockTranslated ==
    /\ fout.done
    /\ Len(fin.records_info) = 3
    /\ fin.records_info[1].compressed_size # fin.records_info[2].compressed_size
    /\ fin.records_info[1].decompressed_size # fin.records_info[2].decompressed_size
    /\ fout.offset.some
    /\ fout.offset.val.buf_offset = 23
    /\ fout.offset.val.block_offset = 1
    /\ fout.offset.val.decomp_size = 3

\* an offset at the end of the record region has been translated to None
PastTheEndIsNone ==
    /\ fout.done
    /\ fin.records_info # <<>>
    /\ fin.offset = sum_before(fin.records_info, Len(fin.records_info) + 1, "decompressed_size")
    /\ fout.offset = None
    /\ fout.res = Ok(None)

(***************************************************************************)
(* Properties of the record cache and the record fetch (Spec)              *)
(***************************************************************************)
\* the Mdx handles of an MDict: the primary file, then the resources
handles(d) == <<d.mdx>> \o d.resources

\* the map of a handle; a handle that does not cache has no entries
cache_of(mdx) == IF mdx.record_cache.some THEN mdx.record_cache.val ELSE <<>>

\* the sums of the compressed sizes of the blocks before block i
prefix_sums(records_info) ==
    {sum_before(records_info, i, "compressed_size") : i \in DOMAIN records_info}

\* C15: the cache is empty when the handle becomes Ready; over any sequence of
\* lookups entries are only added, the bytes under a buf_offset never change,
\* every key is the sum of the compressed sizes of a prefix of records_info, and
\* the entries never outnumber the record blocks.
CacheDiscipline ==
    [][/\ (state = "Unopened" /\ state' = "Ready") =>
              \A i \in DOMAIN handles(dict') : cache_of(handles(dict')[i]) = <<>>
       /\ state = "Ready" =>
              /\ Len(handles(dict')) = Len(handles(dict))
              /\ \A i \in DOMAIN handles(dict) :
                    LET old == cache_of(handles(dict)[i])
                        new == cache_of(handles(dict')[i])
                        records_info == handles(dict')[i].records_info
                    IN  /\ DOMAIN old \subseteq DOMAIN new
                        /\ \A k \in DOMAIN old : new[k] = old[k]
                        /\ DOMAIN new \subseteq prefix_sums(records_info)
                        /\ Cardinality(DOMAIN new) <= Len(records_info)]_vars

\* both record blocks of the primary file are cached
EveryBlockCached ==
    /\ state = "Ready"
    /\ Len(dict.mdx.records_info) = 2
    /\ DOMAIN cache_of(dict.mdx) = {0, dict.mdx.records_info[1].compressed_size}
    /\ result.op = "lookup" /\ trace.log # <<>>

\* the handle the last lookup_record of the operation ran on
last_searched(d) ==
    IF result.op = "lookup" THEN d.mdx ELSE d.resources[Len(trace.searched)]

\* where the record block of the entry stored under key starts in the file
block_start(mdx, key) ==
    LET e == CHOOSE x \in Entries(mdx) : x.text = key
        offset == record_offset(mdx.records_info, e).val
    IN  mdx.record_block_offset + offset.buf_offset

\* cursor positions earlier operations can leave behind
Cursors(f) == {0, f.record_start, f.record_start + 1, f.length}

\* C16: every record-block read on a cache miss is preceded, within the same
\* lookup, by a seek to record_block_offset + buf_offset, so the bytes read and
\* the result do not depend on where earlier lookups left the file cursor.
SeekBeforeRead ==
    /\ \A i \in DOMAIN trace.log :
          trace.log[i].op = "read" =>
              /\ i > 1
              /\ trace.log[i - 1] = Seek(trace.log[i].at)
              /\ trace.log[i].at =
                    block_start(last_searched(dict), key_maker(result.arg, FALSE))
    /\ state = "Ready" =>
          \A w \in Words : \A pos \in Cursors(disk.mdx) :
              LET here == MDict_lookup(dict, disk, w, NoFault)
                  there == MDict_lookup([dict EXCEPT !.mdx.reader.pos = pos],
                                        disk, w, NoFault)
              IN  there.res = here.res /\ there.log = here.log

\* the second record block was read where the seek of the same lookup went,
\* past the position the cursor had after load
SecondBlockReadAfterSeek ==
    /\ state = "Ready"
    /\ result.op = "lookup" /\ IsOk(result.res) /\ result.res.val.some
    /\ Len(trace.log) = 3
    /\ trace.log[1].op = "seek" /\ trace.log[2].op = "read"
    /\ trace.log[1].at > dict.mdx.record_block_offset
    /\ trace.log[2].at = trace.log[1].at

\* the handle, as it was before the operation, that the operation's last
\* lookup_record ran on
handle_asked(d, op, searched) ==
    IF op = "lookup" THEN d.mdx ELSE d.resources[Len(searched)]

\* the key is stored in the handle's index at an offset inside a record block
\* that the handle's cache holds (hit) or does not hold (~hit)
found_with_cache(mdx, key, hit) ==
    \E e \in Entries(mdx) :
        /\ e.text = key
        /\ record_offset(mdx.records_info, e).some
        /\ hit <=> (record_offset(mdx.records_info, e).val.buf_offset
                        \in DOMAIN cache_of(mdx))

\* what the Occupied arm returns for the key: find on the cached bytes
from_cache(mdx, key) ==
    LET e == CHOOSE x \in Entries(mdx) : x.text = key
        offset == record_offset(mdx.records_info, e).val
        found == find_at(cache_of(mdx)[offset.buf_offset], offset, mdx.encoding)
    IN  IF IsOk(found) THEN Ok(Some(found.val)) ELSE found

CachedLookupStep ==
    /\ state = "Ready"
    /\ result'.op \in {"lookup", "get_resource"}
    /\ trace'.searched # <<>>

\* C17: a lookup whose record block is already in the cache uses the cached
\* bytes and does no seek, no read and no decode, leaving the cursor and the
\* cache unchanged; file I/O happens only on a cache miss of a key that was
\* found in the index.
CacheHitDoesNoIO ==
    [][CachedLookupStep =>
        LET h == handle_asked(dict, result'.op, trace'.searched)
            h_after == handle_asked(dict', result'.op, trace'.searched)
            key == key_maker(result'.arg, FALSE)
        IN  /\ found_with_cache(h, key, TRUE) =>
                  /\ trace'.log = <<>>
                  /\ h_after = h
                  /\ result'.res = from_cache(h, key)
            /\ trace'.log # <<>> => found_with_cache(h, key, FALSE)
            /\ trace'.log = <<>> => h_after = h]_vars

\* the key b was answered from the block that the lookup of a had cached
SecondKeyOfCachedBlock ==
    /\ state = "Ready"
    /\ disk.mdx = MdxA
    /\ result.op = "lookup" /\ result.arg = <<98>>
    /\ IsOk(result.res) /\ result.res.val.some
    /\ trace.log = <<>>
    /\ DOMAIN cache_of(dict.mdx) = {0}

(***************************************************************************)
(* Properties of load (Spec)                                               *)
(***************************************************************************)
\* the file on disk a handle reads
file_of(mdx) == IF mdx.file = -1 THEN disk.mdx ELSE disk.mdd[mdx.file]

\* C18: load reads header, key-block header, key-block-info, key blocks and
\* record-info in that order and stops there: record_block_offset is the
\* position right after the last record-info size pair, load reads and decodes
\* nothing of the record region, and a record block is decoded only by a lookup
\* that hits a key whose offset lies in that block.
LoadStopsBeforeRecords ==
    /\ result.op = "open" =>
          /\ trace.log = <<>>
          /\ \A i \in DOMAIN trace.loads :
                /\ trace.loads[i].stages = SliceTo(AllStages, Len(trace.loads[i].stages))
                /\ trace.loads[i].kind = "Ok" => trace.loads[i].stages = AllStages
    /\ state = "Ready" =>
          \A i \in DOMAIN handles(dict) :
              LET h == handles(dict)[i]
              IN  /\ h.record_block_offset = file_of(h).record_start
                  /\ result.op = "open" =>
                        (h.reader.pos = h.record_block_offset /\ cache_of(h) = <<>>)
    /\ \A i \in DOMAIN trace.log :
          trace.log[i].op = "decode_block" =>
              /\ result.op \in {"lookup", "get_resource"}
              /\ trace.log[i].at =
                    block_start(last_searched(dict), key_maker(result.arg, FALSE))

\* a file whose record region is cut short has been loaded
TruncatedRecordRegionLoads ==
    /\ result.op = "open" /\ state = "Ready"
    /\ disk.mdx.length < disk.mdx.record_start + total_size(disk.mdx.records)
    /\ dict.mdx.record_block_offset = disk.mdx.record_start
    /\ trace.loads[1].stages = AllStages

\* bit 1 of the header's Encrypted value
key_info_bit(attrs) == (encrypted_value(attrs) \div 2) % 2 = 1

\* the primary file is a V2 file that is sound up to its key-block-info, whose
\* body inflates once it is taken the way it was written
KeyInfoOnTrial ==
    /\ result.op = "open" /\ HeaderWasRead
    /\ IsOk(read_header(disk.mdx, "UTF-16LE"))
    /\ read_header(disk.mdx, "UTF-16LE").val.version = "V2"
    /\ Len(trace.loads[1].stages) >= 3
    /\ disk.mdx.kinfo.magic = <<2, 0, 0, 0>>
    /\ disk.mdx.kinfo.zlib_ok
    /\ disk.mdx.kbh.block_info_size = 8 + disk.mdx.kinfo.body_size

\* C19: in a V2 file whose Encrypted value has bit 1 set (2 and 3) the
\* key-block-info body is unscrambled before it is inflated, with bit 1 clear
\* (0, 1, "Yes") it is inflated as it is; in both cases the Adler-32 of the
\* inflated table is verified before the table is parsed.
KeyInfoUnscrambledOnBit1 ==
    KeyInfoOnTrial =>
        LET inflated == disk.mdx.kinfo.scrambled <=> key_info_bit(disk.mdx.header.attrs)
            matches == RollingAdler32(disk.mdx.kinfo.table) = disk.mdx.kinfo.checksum
            past_key_info == Len(trace.loads[1].stages) > 3
        IN  /\ past_key_info => (inflated /\ matches)
            /\ (inflated /\ matches) => (past_key_info \/ IsPanic(result.res))
            /\ (inflated /\ ~matches) => result.res = Err("InvalidCheckSum", "header")

(***************************************************************************)
(* Properties of decode_block (Spec)                                       *)
(***************************************************************************)
\* the record block of records_info that starts buf_offset bytes into the
\* record region
block_under(records_info, buf_offset) ==
    CHOOSE i \in DOMAIN records_info :
        sum_before(records_info, i, "compressed_size") = buf_offset

\* the decomp_size offset translation gives for the entry stored under key
declared_size(mdx, key) ==
    LET e == CHOOSE x \in Entries(mdx) : x.text = key
    IN  record_offset(mdx.records_info, e).val.decomp_size

\* C20: whenever decode_block(raw, compressed_size, decompressed_size) succeeds
\* the bytes it returns are exactly decompressed_size long, for every
\* compression method; so every cached record block has length decomp_size.
DecodedSizeIsDeclared ==
    /\ \A i \in DOMAIN trace.log :
          trace.log[i].op = "decode_block" =>
              trace.log[i].n = declared_size(last_searched(dict),
                                             key_maker(result.arg, FALSE))
    /\ state = "Ready" =>
          \A i \in DOMAIN handles(dict) :
              LET h == handles(dict)[i]
              IN  \A k \in DOMAIN cache_of(h) :
                      Len(cache_of(h)[k]) =
                          h.records_info[block_under(h.records_info, k)].decompressed_size

(***************************************************************************)
(* Properties of the lookup loops (SpecSteps)                              *)
(***************************************************************************)
\* an iteration that stays in its loop has less left to search; the loops are
\* left in the order of lookup_record; what the lookup returns in the end is
\* what lookup_record computes
LoopProgress ==
    /\ (fout.pc \in {"blocks", "entries"} /\ fout'.pc = fout.pc) =>
          Len(fout'.slice) < Len(fout.slice)
    /\ (fout.pc = "offset" /\ fout'.pc = "offset") =>
          (fout.i <= Len(fin.records_info) /\ fout'.i = fout.i + 1)
    /\ <<fout.pc, fout'.pc>> \in
          { <<"blocks", "blocks">>, <<"blocks", "entries">>, <<"blocks", "done">>,
            <<"entries", "entries">>, <<"entries", "offset">>, <<"entries", "done">>,
            <<"offset", "offset">>, <<"offset", "fetch">>, <<"offset", "done">>,
            <<"fetch", "done">> }
    /\ fout'.pc = "done" =>
          /\ fout'.res.kind \in {"Ok", "Err", "Panic"}
          /\ fout'.res = lookup_record(StepHandle(fin.key_blocks, fin.records_info),
                                       fin.word, NoFault,
                                       RecordRegion(fin.records_info)).res

\* C21: every lookup terminates: each iteration of bisect_search returns or
\* strictly shrinks the searched slice and record_offset makes at most one pass
\* over records_info, so for every index and query the lookup ends with
\* Some/None or an error, also when a probed key block is empty and the
\* comparison yields None.
LookupTerminates == [][LoopProgress]_vars /\ <>(fout.pc = "done")

\* a search that probed a key block without entries has ended with None
EmptyBlockEndsSearch ==
    /\ fout.pc = "done"
    /\ fout.cmp_none
    /\ Len(fin.key_blocks) >= 2
    /\ \E b \in DOMAIN fin.key_blocks : fin.key_blocks[b].entries # <<>>
    /\ fout.res = Ok(None)

====
